---- MODULE Spec2Model ----
(***************************************************************************)
(* The enum store of searchlib (attribute/enumstore.hpp) and its           *)
(* dictionary (attribute/enum_store_dictionary.cpp): a unique-value store  *)
(* whose entries are addressed by Index handles, and an ordered tree of    *)
(* those handles with an optional posting-list payload per key.            *)
(*                                                                         *)
(* The B-tree, the data store (allocator, hold lists) and the comparators  *)
(* live in vespalib and are not part of the sources modelled here; they    *)
(* are modelled from their documented contract: the tree as the sorted     *)
(* sequence of its (key, data) pairs, the store as an array of slots.      *)
(***************************************************************************)
EXTENDS Integers, Sequences, FiniteSets, Bags, TLC

(* ------------------------------ bounds -------------------------------- *)

\* Values are 1..MaxValue (a small integer DataType).
MaxValue == 3
\* The store has NumSlots entry slots; an Index is a slot number.
NumSlots == 2
\* Reference counts are capped at MaxRefCount.
MaxRefCount == 1
\* The generation counter runs from 1 to MaxGen.
MaxGen == 2
\* Posting list references are 1..NumPostings.
NumPostings == 1

Values == 1..MaxValue
Index == 1..NumSlots
Generations == 1..MaxGen
PostingRefs == 1..NumPostings

\* EntryRef() / Index(): the invalid reference, also the null PostingRef.
InvalidRef == 0

(* ------------------------------- state -------------------------------- *)

VARIABLES
    variant,      \* "plain" or "folded": the dictionary built by the constructor
    entries,      \* the store: slot -> [st, value, rc]
    hold1,        \* entries handed to hold(), not yet tagged with a generation
    hold2,        \* held entries tagged by transferHoldLists: [ref, gen]
    dict,         \* the live tree, in order: sequence of [key, data]
    frozen,       \* the frozen root: the tree a frozen view starts from
    generation,   \* the current generation of the generation handler
    add_result,   \* the UniqueStoreAddResult of the last add: [ref, inserted]
    reader_pc,    \* "idle" or "view": the reader holds a frozen view
    reader_view,  \* the frozen view the reader holds
    reader_gen,   \* the generation the reader's guard was taken in
    reader_vals,  \* what the reader saw when it took the view: [value, data]
    aborted,      \* an assertion failed: the program is terminated
    store_mem,    \* the data store's memory usage: [used, dead] bytes
    store_as,     \* the data store's address space usage: [used, dead]
    cached_mem,   \* _cached_values_memory_usage
    cached_as,    \* _cached_values_address_space_usage
    remapper,     \* what the last consider_compact returned
    io_pc,        \* "idle", "write", "written", "load" or "loaded"
    wr_it,        \* writeAllValues: the position of the tree iterator
    wr_idxs,      \* writeAllValues: the batch vector idxs
    wr_capacity,  \* writeAllValues: idxs.capacity()
    wr_batches,   \* the sizes of the batches handed to writeValues so far
    writer,       \* the bytes written to the BufferWriter
    ld_src,       \* load_unique_values: the buffer supplied
    ld_left,      \* load_unique_values_internal: left
    ld_prev,      \* load_unique_values_internal: idx1
    ld_entries,   \* the entries of the enum store being loaded
    ld_idx,       \* load_unique_values: the IndexVector idx
    ld_dict,      \* the tree of the enum store being loaded
    ld_ret,       \* what load_unique_values returned
    lookup,       \* a caller's last lookup: what it returned and the caller's handle
    mut_pc,       \* where the mutator is in a folded add or remove, or in a
                  \* sweep, taken step by step
    mut_it,       \* that operation's tree iterator it
    mut_ref,      \* that operation's newRef (add) or ref (remove)
    mut_posting,  \* that operation's posting_list_ref
    thawed,       \* the keys whose tree node the frozen tree does not share
    swp_unused    \* freeUnusedEnums: the IndexSet unused, less what was removed

vars == <<variant, entries, hold1, hold2, dict, frozen, generation, add_result,
          reader_pc, reader_view, reader_gen, reader_vals, aborted,
          store_mem, store_as, cached_mem, cached_as, remapper,
          io_pc, wr_it, wr_idxs, wr_capacity, wr_batches, writer,
          ld_src, ld_left, ld_prev, ld_entries, ld_idx, ld_dict, ld_ret, lookup,
          mut_pc, mut_it, mut_ref, mut_posting, thawed, swp_unused>>

mutVars == <<mut_pc, mut_it, mut_ref, mut_posting, thawed, swp_unused>>

writeVars == <<wr_it, wr_idxs, wr_capacity, wr_batches, writer>>

loadVars == <<ld_src, ld_left, ld_prev, ld_entries, ld_idx, ld_dict, ld_ret>>

ioVars == <<io_pc, writeVars, loadVars>>

compactVars == <<store_mem, store_as, cached_mem, cached_as>>

storeVars == <<entries, hold1, hold2>>
readerVars == <<reader_pc, reader_view, reader_gen, reader_vals>>

(* ----------------------------- comparators ---------------------------- *)

\* The folded form of a value: 1 folds alone, 2,3,4 fold together, 5,6,7 fold
\* together: folded-equal values are neighbours in the exact order.
Fold(v) == (v + 1) \div 3

\* A comparator resolves a valid reference through the store and the invalid
\* reference to the value it was bound to.
Resolve(ent, probe, ref) == IF ref = InvalidRef THEN probe ELSE ent[ref].value

\* ComparatorType: the exact order.
Less(ent, probe, a, b) == Resolve(ent, probe, a) < Resolve(ent, probe, b)

\* FoldedComparatorType: the coarser order.
FoldedLess(ent, probe, a, b) == Fold(Resolve(ent, probe, a)) < Fold(Resolve(ent, probe, b))

(* -------------------------------- tree -------------------------------- *)

Keys(tree) == {tree[i].key : i \in 1..Len(tree)}

MinOf(S) == CHOOSE x \in S : \A y \in S : x <= y

\* lower_bound(key, cmp): the first position whose key is not less than ref
\* (Len + 1: the invalid iterator).
LowerBound(tree, ent, probe, ref) ==
    LET P == {i \in 1..Len(tree) : ~Less(ent, probe, tree[i].key, ref)}
    IN IF P = {} THEN Len(tree) + 1 ELSE MinOf(P)

Valid(tree, it) == it >= 1 /\ it <= Len(tree)

InsertAt(tree, it, elem) ==
    SubSeq(tree, 1, it - 1) \o <<elem>> \o SubSeq(tree, it, Len(tree))

RemoveAt(tree, it) ==
    SubSeq(tree, 1, it - 1) \o SubSeq(tree, it + 1, Len(tree))

WriteData(tree, it, d) == [tree EXCEPT ![it].data = d]

\* find(Index(), cmp): the position of the key equal to the probe, or the
\* invalid iterator.
TreeFind(tree, ent, probe) ==
    LET it == LowerBound(tree, ent, probe, InvalidRef)
    IN IF Valid(tree, it) /\ ~Less(ent, probe, InvalidRef, tree[it].key)
       THEN it ELSE Len(tree) + 1

(* -------------------------------- store ------------------------------- *)

FreeEntry == [st |-> "free", value |-> 0, rc |-> 0]

FreeSlots(ent) == {s \in Index : ent[s].st = "free"}
UsedSlots(ent) == {s \in Index : ent[s].st = "used"}

\* allocate(value): a free slot s becomes an entry with no reference yet.
Allocate(ent, s, v) == [ent EXCEPT ![s] = [st |-> "used", value |-> v, rc |-> 0]]

\* The slot the allocator hands out next: the lowest free one (the invalid
\* reference when the store is full, in which case no add of a new value is
\* attempted).
NextSlot(ent) == IF FreeSlots(ent) = {} THEN InvalidRef ELSE MinOf(FreeSlots(ent))

(* ---------------------------- dictionary ------------------------------ *)

\* FoldedAdd without the "entry already exists" return: every add allocates.
FoldedAdd_NoDupCheck(tree, ent, v, s) ==
    LET it == LowerBound(tree, ent, v, InvalidRef)
    IN IF s = InvalidRef
       THEN [dict |-> tree, entries |-> ent, ref |-> tree[it].key, inserted |-> FALSE]
       ELSE [dict |-> InsertAt(tree, it, [key |-> s, data |-> InvalidRef]),
             entries |-> Allocate(ent, s, v), ref |-> s, inserted |-> TRUE]

\* FoldedAdd with the operands of the equality test swapped: comp(key, probe)
\* is false for any lower bound, so every lower bound counts as the value.
FoldedAdd_SwappedCompare(tree, ent, v, s) ==
    LET it == LowerBound(tree, ent, v, InvalidRef)
    IN IF Valid(tree, it) /\ ~Less(ent, v, tree[it].key, InvalidRef)
       THEN [dict |-> tree, entries |-> ent, ref |-> tree[it].key, inserted |-> FALSE]
       ELSE IF s = InvalidRef
            THEN [dict |-> tree, entries |-> ent, ref |-> InvalidRef, inserted |-> FALSE]
            ELSE [dict |-> InsertAt(tree, it, [key |-> s, data |-> InvalidRef]),
                  entries |-> Allocate(ent, s, v), ref |-> s, inserted |-> TRUE]

\* FoldedAdd that never moves the posting list of the next key to the new key.
FoldedAdd_NoMove(tree, ent, v, s) ==
    LET it == LowerBound(tree, ent, v, InvalidRef)
    IN IF Valid(tree, it) /\ ~Less(ent, v, InvalidRef, tree[it].key)
       THEN [dict |-> tree, entries |-> ent, ref |-> tree[it].key, inserted |-> FALSE]
       ELSE [dict |-> InsertAt(tree, it, [key |-> s, data |-> InvalidRef]),
             entries |-> Allocate(ent, s, v), ref |-> s, inserted |-> TRUE]

\* FoldedAdd that copies the posting list of the next key to the new key and
\* leaves it with the next key as well.
FoldedAdd_NoClear(tree, ent, v, s) ==
    LET it == LowerBound(tree, ent, v, InvalidRef)
    IN IF Valid(tree, it) /\ ~Less(ent, v, InvalidRef, tree[it].key)
       THEN [dict |-> tree, entries |-> ent, ref |-> tree[it].key, inserted |-> FALSE]
       ELSE LET ent1 == Allocate(ent, s, v)
                t1 == InsertAt(tree, it, [key |-> s, data |-> InvalidRef])
                nx == it + 1
            IN IF Valid(t1, nx) /\ t1[nx].data # InvalidRef
                  /\ ~FoldedLess(ent1, v, s, t1[nx].key)
               THEN [dict |-> WriteData(t1, it, t1[nx].data),
                     entries |-> ent1, ref |-> s, inserted |-> TRUE]
               ELSE [dict |-> t1, entries |-> ent1, ref |-> s, inserted |-> TRUE]

\* EnumStoreFoldedDictionary::add; s is the slot insertEntry() would return.
FoldedAdd(tree, ent, v, s) ==
    LET it == LowerBound(tree, ent, v, InvalidRef)
    IN IF Valid(tree, it) /\ ~Less(ent, v, InvalidRef, tree[it].key)
       THEN [dict |-> tree, entries |-> ent, ref |-> tree[it].key, inserted |-> FALSE]
       ELSE LET ent1 == Allocate(ent, s, v)
                t1 == InsertAt(tree, it, [key |-> s, data |-> InvalidRef])
                nx == it + 1
            IN IF Valid(t1, nx) /\ t1[nx].data # InvalidRef
                  /\ ~FoldedLess(ent1, v, s, t1[nx].key)
               THEN [dict |-> WriteData(WriteData(t1, nx, InvalidRef), it, t1[nx].data),
                     entries |-> ent1, ref |-> s, inserted |-> TRUE]
               ELSE [dict |-> t1, entries |-> ent1, ref |-> s, inserted |-> TRUE]

\* UniqueStoreDictionary::add, the plain variant: no payload to move.
PlainAdd(tree, ent, v, s) ==
    LET it == LowerBound(tree, ent, v, InvalidRef)
    IN IF Valid(tree, it) /\ ~Less(ent, v, InvalidRef, tree[it].key)
       THEN [dict |-> tree, entries |-> ent, ref |-> tree[it].key, inserted |-> FALSE]
       ELSE [dict |-> InsertAt(tree, it, [key |-> s, data |-> InvalidRef]),
             entries |-> Allocate(ent, s, v), ref |-> s, inserted |-> TRUE]

DictAdd(var, tree, ent, v, s) ==
    IF var = "folded" THEN FoldedAdd(tree, ent, v, s) ELSE PlainAdd(tree, ent, v, s)

\* remove without its assertions: whatever is at the lower bound is removed.
FoldedRemove_NoAssert(tree, ent, ref) ==
    LET it == IF ref = InvalidRef THEN 1 ELSE LowerBound(tree, ent, 0, ref)
    IN IF ~Valid(tree, it)
       THEN [dict |-> tree, aborted |-> FALSE]
       ELSE [dict |-> RemoveAt(tree, it), aborted |-> FALSE]

\* remove that drops the posting list of the key it removes.
FoldedRemove_NoHandOff(tree, ent, ref) ==
    IF ref = InvalidRef
    THEN [dict |-> tree, aborted |-> TRUE]
    ELSE LET it == LowerBound(tree, ent, 0, ref)
         IN IF ~(Valid(tree, it) /\ tree[it].key = ref)
            THEN [dict |-> tree, aborted |-> TRUE]
            ELSE [dict |-> RemoveAt(tree, it), aborted |-> FALSE]

\* EnumStoreFoldedDictionary::remove; a failed assertion ends the program.
FoldedRemove(tree, ent, ref) ==
    IF ref = InvalidRef
    THEN [dict |-> tree, aborted |-> TRUE]
    ELSE LET it == LowerBound(tree, ent, 0, ref)
         IN IF ~(Valid(tree, it) /\ tree[it].key = ref)
            THEN [dict |-> tree, aborted |-> TRUE]
            ELSE LET posting_list_ref == tree[it].data
                     t1 == RemoveAt(tree, it)
                 IN IF posting_list_ref # InvalidRef /\ Valid(t1, it)
                       /\ t1[it].data = InvalidRef
                       /\ ~FoldedLess(ent, 0, ref, t1[it].key)
                    THEN [dict |-> WriteData(t1, it, posting_list_ref), aborted |-> FALSE]
                    ELSE [dict |-> t1, aborted |-> FALSE]

\* UniqueStoreDictionary::remove, the plain variant.
PlainRemove(tree, ent, ref) ==
    IF ref = InvalidRef
    THEN [dict |-> tree, aborted |-> TRUE]
    ELSE LET it == LowerBound(tree, ent, 0, ref)
         IN IF ~(Valid(tree, it) /\ tree[it].key = ref)
            THEN [dict |-> tree, aborted |-> TRUE]
            ELSE [dict |-> RemoveAt(tree, it), aborted |-> FALSE]

DictRemove(var, tree, ent, ref) ==
    IF var = "folded" THEN FoldedRemove(tree, ent, ref) ELSE PlainRemove(tree, ent, ref)

(* ------------------------------- sweeps ------------------------------- *)

\* freeUnusedEnum without the test of the reference count.
freeUnusedEnum_NoRefCheck(ent, idx, acc) ==
    [unused |-> acc.unused \cup {idx}, hold1 |-> acc.hold1 (+) SetToBag({idx})]

\* EnumStoreT::freeUnusedEnum(idx, unused): an entry nobody refers to joins the
\* unused set and is handed to the allocator's hold list.
freeUnusedEnum(ent, idx, acc) ==
    IF ent[idx].rc = 0
    THEN [unused |-> acc.unused \cup {idx}, hold1 |-> acc.hold1 (+) SetToBag({idx})]
    ELSE acc

RECURSIVE ScanUnused(_, _, _)
ScanUnused(ent, idxs, acc) ==
    IF idxs = <<>> THEN acc
    ELSE ScanUnused(ent, Tail(idxs), freeUnusedEnum(ent, Head(idxs), acc))

\* An IndexSet is iterated in ascending order of its references.
RECURSIVE Ascending(_)
Ascending(S) ==
    IF S = {} THEN <<>> ELSE <<MinOf(S)>> \o Ascending(S \ {MinOf(S)})

\* EnumStoreDictionary::removeUnusedEnums: one remove per unused index; a failed
\* assertion ends the program where it stands.
RECURSIVE RemoveEach(_, _, _, _)
RemoveEach(var, tree, ent, refs) ==
    IF refs = <<>> THEN [dict |-> tree, aborted |-> FALSE]
    ELSE LET r == DictRemove(var, tree, ent, Head(refs))
         IN IF r.aborted THEN r ELSE RemoveEach(var, r.dict, ent, Tail(refs))

removeUnusedEnums(var, tree, ent, unused) ==
    IF unused = {} THEN [dict |-> tree, aborted |-> FALSE]
    ELSE RemoveEach(var, tree, ent, Ascending(unused))

KeySeq(tree) == [i \in 1..Len(tree) |-> tree[i].key]

\* EnumStoreDictionary::freeUnusedEnums(cmp): scan every key of the tree.
DictFreeUnusedEnums(var, tree, ent, h1) ==
    LET acc == ScanUnused(ent, KeySeq(tree), [unused |-> {}, hold1 |-> h1])
        r == removeUnusedEnums(var, tree, ent, acc.unused)
    IN [dict |-> r.dict, aborted |-> r.aborted, hold1 |-> acc.hold1, unused |-> acc.unused]

\* The targeted sweep that scans every key of the tree, as the full sweep does.
DictFreeUnusedEnumsOf_AllKeys(var, tree, ent, h1, toRemove) ==
    LET acc == ScanUnused(ent, KeySeq(tree), [unused |-> {}, hold1 |-> h1])
        r == removeUnusedEnums(var, tree, ent, acc.unused)
    IN [dict |-> r.dict, aborted |-> r.aborted, hold1 |-> acc.hold1, unused |-> acc.unused]

\* EnumStoreDictionary::freeUnusedEnums(toRemove, cmp): scan the candidates.
DictFreeUnusedEnumsOf(var, tree, ent, h1, toRemove) ==
    LET acc == ScanUnused(ent, Ascending(toRemove), [unused |-> {}, hold1 |-> h1])
        r == removeUnusedEnums(var, tree, ent, acc.unused)
    IN [dict |-> r.dict, aborted |-> r.aborted, hold1 |-> acc.hold1, unused |-> acc.unused]

(* ----------------------------- hold lists ----------------------------- *)

\* hold(idx) adds the entry to the first hold list; both hold lists are bags
\* (an entry held twice is on the list twice).
\* transferHoldLists(generation): every untagged held entry is tagged with the
\* generation and moves to the second hold list.
StoreTransferHoldLists(h1, h2, gen) ==
    h2 (+) [e \in {[ref |-> s, gen |-> gen] : s \in BagToSet(h1)} |-> h1[e.ref]]

\* A trim that takes the range as [0, firstUsed].
Trimmable_Inclusive(held, firstUsed) == held.gen <= firstUsed

\* trimHoldLists(firstUsed) removes generations in the range [0, firstUsed>.
Trimmable(held, firstUsed) == held.gen < firstUsed

StoreTrimHoldList(h2, firstUsed) ==
    [e \in {x \in BagToSet(h2) : ~Trimmable(x, firstUsed)} |-> h2[e]]

\* The entries of the trimmed generations are freed.
StoreTrimEntries(ent, h2, firstUsed) ==
    [s \in Index |->
        IF \E e \in BagToSet(h2) : e.ref = s /\ Trimmable(e, firstUsed)
        THEN FreeEntry ELSE ent[s]]

(* ------------------------------ readers ------------------------------- *)

\* getFrozenView(): the view starts from the frozen root.
getFrozenView == frozen

\* What a traversal of a view yields: the value and the payload of each key.
Observed(view, ent) ==
    [i \in 1..Len(view) |-> [value |-> ent[view[i].key].value, data |-> view[i].data]]

\* The key at position it is the first of its run of folded-equal keys.
FirstOfRun(tree, ent, it) ==
    IF it = 1 THEN TRUE ELSE FoldedLess(ent, 0, tree[it - 1].key, tree[it].key)

(* ------------------------------ lookups ------------------------------- *)

NotFound == [found |-> FALSE, idx |-> InvalidRef]

\* findIndex that takes the key at the lower bound for the key found.
findIndex_LowerBound(tree, ent, v) ==
    LET itr == LowerBound(tree, ent, v, InvalidRef)
    IN IF ~Valid(tree, itr) THEN NotFound
       ELSE [found |-> TRUE, idx |-> tree[itr].key]

\* EnumStoreDictionary::findIndex: exact lookup in the live tree.
findIndex(tree, ent, v) ==
    LET itr == TreeFind(tree, ent, v)
    IN IF ~Valid(tree, itr) THEN NotFound
       ELSE [found |-> TRUE, idx |-> tree[itr].key]

\* findFrozenIndex that searches the live tree, as findIndex does.
findFrozenIndex_Live(view, ent, v) ==
    LET itr == TreeFind(dict, ent, v)
    IN IF ~Valid(dict, itr) THEN NotFound
       ELSE [found |-> TRUE, idx |-> dict[itr].key]

\* findFrozenIndex with the validity test inverted.
findFrozenIndex_Inverted(view, ent, v) ==
    LET itr == TreeFind(view, ent, v)
    IN IF Valid(view, itr) THEN NotFound
       ELSE [found |-> TRUE, idx |-> InvalidRef]

\* EnumStoreDictionary::findFrozenIndex: exact lookup in the frozen view the
\* call obtained.
findFrozenIndex(view, ent, v) ==
    LET itr == TreeFind(view, ent, v)
    IN IF ~Valid(view, itr) THEN NotFound
       ELSE [found |-> TRUE, idx |-> view[itr].key]

\* The frozen tree's find with a folded comparator bound to probe: the first
\* key that is not folded-less than the probe, if the probe is not folded-less
\* than it.
FoldedFind(view, ent, probe) ==
    LET P == {i \in 1..Len(view) : ~FoldedLess(ent, probe, view[i].key, InvalidRef)}
        it == IF P = {} THEN Len(view) + 1 ELSE MinOf(P)
    IN IF Valid(view, it) /\ ~FoldedLess(ent, probe, InvalidRef, view[it].key)
       THEN it ELSE Len(view) + 1

RECURSIVE MatchingFrom(_, _, _, _)
\* findMatchingEnums: the loop, from the iterator itr on.
MatchingFrom(view, ent, probe, itr) ==
    IF Valid(view, itr) /\ ~FoldedLess(ent, probe, InvalidRef, view[itr].key)
    THEN <<view[itr].key>> \o MatchingFrom(view, ent, probe, itr + 1)
    ELSE <<>>

\* findMatchingEnums that starts at the key equal to the probe.
findMatchingEnums_ExactFind(view, ent, probe) ==
    MatchingFrom(view, ent, probe, TreeFind(view, ent, probe))

\* EnumStoreDictionary::findMatchingEnums with the comparator of
\* EnumStoreT::findFoldedEnums: the handles of the keys of the frozen view that
\* are folded-equal to the probe.
findMatchingEnums(view, ent, probe) ==
    MatchingFrom(view, ent, probe, FoldedFind(view, ent, probe))

\* EnumStoreT::findIndex(value, idx): the dictionary's findIndex with the
\* store's comparator bound to value.
StoreFindIndex(tree, ent, v) == findIndex(tree, ent, v)

\* EnumStoreT::findEnum(value, e): the dictionary's findFrozenIndex, and the
\* handle of the Index it found.
findEnum(view, ent, v) == findFrozenIndex(view, ent, v)

\* The lookups a caller may make.
LookupKinds == {"findIndex", "findFrozenIndex", "findEnum"}

\* What the lookup of kind for v returns.
LookupResult(kind, v) ==
    IF kind = "findIndex" THEN StoreFindIndex(dict, entries, v)
    ELSE IF kind = "findFrozenIndex" THEN findFrozenIndex(getFrozenView, entries, v)
    ELSE findEnum(getFrozenView, entries, v)

\* No lookup was made: the caller's handle is the invalid one.
NoLookup == [found |-> FALSE, out |-> InvalidRef]

(* ------------------------- frozen tree nodes -------------------------- *)

\* thaw left out: the node stays shared with the frozen tree.
Thaw_Skipped(th, key) == th

\* BTree::thaw(it): the node of the key at it becomes the live tree's own.
Thaw(th, key) == th \cup {key}

\* What a frozen tree shows after writeData(d) at key in the live tree: the
\* write, if the node of the key is shared with it.
SharedWrite(view, th, key, d) ==
    [i \in 1..Len(view) |->
        IF view[i].key = key /\ key \notin th
        THEN [key |-> key, data |-> d]
        ELSE view[i]]

(* ----------------------------- compaction ----------------------------- *)

\* minimum dead bytes in enum store before consider compaction
DEAD_BYTES_SLACK == 65536
DEAD_ADDRESS_SPACE_SLACK == 65536

\* A usage as the data store reports it; nothing is used after construction.
NoUsage == [used |-> 0, dead |-> 0]

\* A usage with twice the slack used and d more than the slack dead.
Usage(slack, d) == [used |-> 2 * slack, dead |-> slack + d]

\* The usages the data store is taken to report, memory and address space:
\* the dead bytes at the slack, the dead address space at the slack, both above
\* it and both below it.
StoreUsages ==
    {<<Usage(DEAD_BYTES_SLACK, d[1]), Usage(DEAD_ADDRESS_SPACE_SLACK, d[2])>> :
        d \in {<<0, -1>>, <<-1, 0>>, <<1, 1>>, <<-1, -1>>}}

\* A ratio of the compaction strategy, as a fraction: a quarter (which the
\* usages above exceed) or three quarters (which they do not).
Ratios == {[num |-> 1, den |-> 4], [num |-> 3, den |-> 4]}

\* CompactionStrategy: getMaxDeadBytesRatio(), getMaxDeadAddressSpaceRatio().
Strategies == [maxDeadBytesRatio : Ratios, maxDeadAddressSpaceRatio : Ratios]

\* used * ratio < dead
BelowDead(used, ratio, dead) == used * ratio.num < dead * ratio.den

\* compact_memory with the slack compared strictly.
compact_memory_Strict(usage, strategy) ==
    /\ usage.dead > DEAD_BYTES_SLACK
    /\ BelowDead(usage.used, strategy.maxDeadBytesRatio, usage.dead)

\* consider_compact: compact_memory.
compact_memory(usage, strategy) ==
    /\ usage.dead >= DEAD_BYTES_SLACK
    /\ BelowDead(usage.used, strategy.maxDeadBytesRatio, usage.dead)

\* consider_compact: compact_address_space.
compact_address_space(usage, strategy) ==
    /\ usage.dead >= DEAD_ADDRESS_SPACE_SLACK
    /\ BelowDead(usage.used, strategy.maxDeadAddressSpaceRatio, usage.dead)

\* The null unique_ptr: no compaction was done.
NullRemapper == [valid |-> FALSE, map |-> <<>>]

\* The position of x in the ascending enumeration of S.
RankIn(S, x) == Cardinality({y \in S : y <= x})

\* Where compaction moves the entries M to: the free slots, lowest first.
MoveMap(ent, M) ==
    [k \in Index |-> IF k \in M THEN Ascending(FreeSlots(ent))[RankIn(M, k)] ELSE k]

\* compact_worst that copies the value of a moved entry and not its reference
\* count.
StoreCompactWorst_DropRefCount(tree, ent, h1, M) ==
    LET map == MoveMap(ent, M)
    IN [dict |-> [i \in 1..Len(tree) |-> [key |-> map[tree[i].key], data |-> tree[i].data]],
        entries |-> [s \in Index |->
                        IF \E k \in M : map[k] = s
                        THEN [st |-> "used",
                              value |-> ent[CHOOSE k \in M : map[k] = s].value,
                              rc |-> 0]
                        ELSE ent[s]],
        hold1 |-> h1 (+) SetToBag(M),
        map |-> map]

\* UniqueStore::compact_worst: the entries M of the buffers being compacted are
\* copied to free slots, the keys of the tree are changed to the copies, the old
\* entries are put on hold, and the remapper maps every old Index to its copy.
StoreCompactWorst(tree, ent, h1, M) ==
    LET map == MoveMap(ent, M)
    IN [dict |-> [i \in 1..Len(tree) |-> [key |-> map[tree[i].key], data |-> tree[i].data]],
        entries |-> [s \in Index |->
                        IF \E k \in M : map[k] = s
                        THEN ent[CHOOSE k \in M : map[k] = s]
                        ELSE ent[s]],
        hold1 |-> h1 (+) SetToBag(M),
        map |-> map]

\* The sets of entries compaction may have to move: keys of the tree, no more
\* of them than there are free slots.
Movable(tree, ent) ==
    {M \in SUBSET Keys(tree) : Cardinality(M) <= Cardinality(FreeSlots(ent))}

(* --------------------------- dump and load ---------------------------- *)

\* writeAllValues: BATCHSIZE.
BATCHSIZE == 1000

\* sizeof(DataType), DataType being a 16 bit integer.
RecordSize == 2

\* The in-memory representation of a value: RecordSize bytes, the least
\* significant first.
Encode(v) == [i \in 1..RecordSize |-> (v \div (256 ^ (i - 1))) % 256]

RECURSIVE DecodeBytes(_, _, _)
\* The value whose representation is the n bytes of buf that follow offset p.
DecodeBytes(buf, p, n) ==
    IF n = 0 THEN 0
    ELSE buf[p + 1] + 256 * DecodeBytes(buf, p + 1, n - 1)

\* *static_cast<const DataType*>(src), src being offset p of buf.
Decode(buf, p) == DecodeBytes(buf, p, RecordSize)

\* writeValues that writes the batch last index first.
writeValues_Reversed(ent, idxs) ==
    [b \in 1..(Len(idxs) * RecordSize) |->
        Encode(ent[idxs[Len(idxs) - ((b - 1) \div RecordSize)]].value)[((b - 1) % RecordSize) + 1]]

\* EnumStoreT::writeValues: the bytes written for the batch idxs.
writeValues(ent, idxs) ==
    [b \in 1..(Len(idxs) * RecordSize) |->
        Encode(ent[idxs[((b - 1) \div RecordSize) + 1]].value)[((b - 1) % RecordSize) + 1]]

\* std::vector::reserve(n) on an empty vector: the capacity it leaves, which
\* is n with the standard libraries the program is built with.
Reserve(n) == {n}

\* writeAllValues that flushes a batch only when it is beyond its capacity.
BatchFull_Late(idxs, capacity) == Len(idxs) > capacity

\* writeAllValues: idxs.size() >= idxs.capacity().
BatchFull(idxs, capacity) == Len(idxs) >= capacity

\* The allocator of the enum store being loaded: a new entry after the others.
LoadAllocate(ent, v) == Append(ent, [st |-> "used", value |-> v, rc |-> 0])

\* UniqueStoreDictionary::build(refs): the tree of the refs in their order.
DictBuild(refs) == [i \in 1..Len(refs) |-> [key |-> refs[i], data |-> InvalidRef]]

\* The sizes of the larger stores that are dumped: one that fills a batch
\* exactly, one that needs a second batch and one that needs a third.
BulkSizes == {BATCHSIZE, BATCHSIZE + 1, 2 * BATCHSIZE + 1}

\* The most bytes that are cut off the end of what was written.
MaxCut == 3

\* The buffers that load_unique_values may be given: the bytes written, or
\* those bytes with some of the last ones missing.
Supplied(bytes) ==
    {SubSeq(bytes, 1, Len(bytes) - cut) : cut \in {c \in 0..MaxCut : c <= Len(bytes)}}

\* load_unique_value that takes a buffer of exactly one record for truncated.
Truncated_Inclusive(available) == available <= RecordSize

\* load_unique_value: available < sizeof(DataType).
Truncated(available) == available < RecordSize

(* ------------------------------ actions ------------------------------- *)

\* An add is attempted when the value is a key already or the store has room.
CanAdd(tree, ent, v) ==
    IF Valid(tree, TreeFind(tree, ent, v)) THEN TRUE ELSE FreeSlots(ent) # {}


NoResult == [ref |-> InvalidRef, inserted |-> FALSE]

\* What the constructor leaves besides the entries and the tree.
InitRest ==
    /\ variant \in {"plain", "folded"}
    /\ hold1 = EmptyBag
    /\ hold2 = EmptyBag
    /\ generation = 1
    /\ add_result = NoResult
    /\ reader_pc = "idle"
    /\ reader_view = <<>>
    /\ reader_gen = 0
    /\ reader_vals = <<>>
    /\ aborted = FALSE
    /\ store_mem = NoUsage
    /\ store_as = NoUsage
    /\ cached_mem = NoUsage
    /\ cached_as = NoUsage
    /\ remapper = NullRemapper
    /\ io_pc = "idle"
    /\ wr_it = 1
    /\ wr_idxs = <<>>
    /\ wr_capacity = 0
    /\ wr_batches = <<>>
    /\ writer = <<>>
    /\ ld_src = <<>>
    /\ ld_left = 0
    /\ ld_prev = InvalidRef
    /\ ld_entries = <<>>
    /\ ld_idx = <<>>
    /\ ld_dict = <<>>
    /\ ld_ret = 0
    /\ lookup = NoLookup
    /\ mut_pc = "idle"
    /\ mut_it = 1
    /\ mut_ref = InvalidRef
    /\ mut_posting = InvalidRef
    /\ thawed = {}
    /\ swp_unused = {}

Init ==
    /\ entries = [s \in Index |-> FreeEntry]
    /\ dict = <<>>
    /\ frozen = <<>>
    /\ InitRest

\* An enum store of n values, as a bulk load leaves it.
InitBulk(n) ==
    /\ entries = [s \in 1..n |-> [st |-> "used", value |-> s, rc |-> 0]]
    /\ dict = [i \in 1..n |-> [key |-> i, data |-> InvalidRef]]
    /\ frozen = dict
    /\ InitRest

\* EnumStoreT::addEnum(value, newIdx).
AddEnum(v) ==
    /\ ~aborted
    /\ CanAdd(dict, entries, v)
    /\ LET r == DictAdd(variant, dict, entries, v, NextSlot(entries))
       IN /\ dict' = r.dict
          /\ frozen' = r.dict
          /\ entries' = r.entries
          /\ add_result' = [ref |-> r.ref, inserted |-> r.inserted]
    /\ UNCHANGED <<variant, hold1, hold2, generation, readerVars, aborted>>
    /\ remapper' = NullRemapper
    /\ UNCHANGED <<compactVars, ioVars, lookup, mutVars>>

\* The reference count of a key is changed by the attribute that uses the enum
\* store; only the mutator thread does so.
IncRefCount(idx) ==
    /\ ~aborted
    /\ idx \in Keys(dict)
    /\ entries[idx].rc < MaxRefCount
    /\ entries' = [entries EXCEPT ![idx].rc = @ + 1]
    /\ UNCHANGED <<variant, hold1, hold2, dict, frozen, generation, readerVars, aborted>>
    /\ add_result' = NoResult
    /\ remapper' = NullRemapper
    /\ UNCHANGED <<compactVars, ioVars, lookup, mutVars>>

DecRefCount(idx) ==
    /\ ~aborted
    /\ idx \in Keys(dict)
    /\ entries[idx].rc > 0
    /\ entries' = [entries EXCEPT ![idx].rc = @ - 1]
    /\ UNCHANGED <<variant, hold1, hold2, dict, frozen, generation, readerVars, aborted>>
    /\ add_result' = NoResult
    /\ remapper' = NullRemapper
    /\ UNCHANGED <<compactVars, ioVars, lookup, mutVars>>

\* EnumStoreT::freeUnusedEnums(): the full sweep.
FreeUnusedEnums ==
    /\ ~aborted
    /\ LET r == DictFreeUnusedEnums(variant, dict, entries, hold1)
       IN /\ dict' = r.dict
          /\ hold1' = r.hold1
          /\ aborted' = r.aborted
          /\ frozen' = IF r.aborted THEN frozen ELSE r.dict
    /\ UNCHANGED <<variant, entries, hold2, generation, readerVars>>
    /\ add_result' = NoResult
    /\ remapper' = NullRemapper
    /\ UNCHANGED <<compactVars, ioVars, lookup, mutVars>>

\* EnumStoreT::freeUnusedEnums(toRemove): the targeted sweep.
FreeUnusedEnumsOf(toRemove) ==
    /\ ~aborted
    /\ LET r == DictFreeUnusedEnumsOf(variant, dict, entries, hold1, toRemove)
       IN /\ dict' = r.dict
          /\ hold1' = r.hold1
          /\ aborted' = r.aborted
          /\ frozen' = IF r.aborted THEN frozen ELSE r.dict
    /\ UNCHANGED <<variant, entries, hold2, generation, readerVars>>
    /\ add_result' = NoResult
    /\ remapper' = NullRemapper
    /\ UNCHANGED <<compactVars, ioVars, lookup, mutVars>>

\* remove(cmp, ref) called on the dictionary itself.
Remove(ref) ==
    /\ ~aborted
    /\ LET r == DictRemove(variant, dict, entries, ref)
       IN /\ dict' = r.dict
          /\ aborted' = r.aborted
          /\ frozen' = IF r.aborted THEN frozen ELSE r.dict
    /\ UNCHANGED <<variant, storeVars, generation, readerVars>>
    /\ add_result' = NoResult
    /\ remapper' = NullRemapper
    /\ UNCHANGED <<compactVars, ioVars, lookup, mutVars>>

\* The posting list attribute writes the payload of the first key of a run of
\* folded-equal keys through getPostingDictionary(); a posting list belongs to
\* one key.
PostingWrite(it, p) ==
    /\ ~aborted
    /\ variant = "folded"
    /\ Valid(dict, it)
    /\ FirstOfRun(dict, entries, it)
    /\ dict[it].data # p
    /\ p # InvalidRef => \A j \in 1..Len(dict) : dict[j].data # p
    /\ dict' = WriteData(dict, it, p)
    /\ frozen' = dict'
    /\ UNCHANGED <<variant, storeVars, generation, readerVars, aborted>>
    /\ add_result' = NoResult
    /\ remapper' = NullRemapper
    /\ UNCHANGED <<compactVars, ioVars, lookup, mutVars>>

\* EnumStoreT::transferHoldLists(generation), called with the current generation.
TransferHoldLists ==
    /\ ~aborted
    /\ hold1 # EmptyBag
    /\ hold2' = StoreTransferHoldLists(hold1, hold2, generation)
    /\ hold1' = EmptyBag
    /\ UNCHANGED <<variant, entries, dict, frozen, generation, readerVars, aborted>>
    /\ add_result' = NoResult
    /\ remapper' = NullRemapper
    /\ UNCHANGED <<compactVars, ioVars, lookup, mutVars>>

\* The generation handler moves to the next generation.
IncGeneration ==
    /\ ~aborted
    /\ generation < MaxGen
    /\ generation' = generation + 1
    /\ UNCHANGED <<variant, storeVars, dict, frozen, readerVars, aborted>>
    /\ add_result' = NoResult
    /\ remapper' = NullRemapper
    /\ UNCHANGED <<compactVars, ioVars, lookup, mutVars>>

\* The oldest generation a reader may still be in.
FirstUsedGeneration == IF reader_pc = "view" THEN reader_gen ELSE generation

\* EnumStoreT::trimHoldLists(firstUsed), called with the first used generation.
TrimHoldLists(firstUsed) ==
    /\ ~aborted
    /\ firstUsed = FirstUsedGeneration
    /\ \E e \in BagToSet(hold2) : Trimmable(e, firstUsed)
    /\ entries' = StoreTrimEntries(entries, hold2, firstUsed)
    /\ hold2' = StoreTrimHoldList(hold2, firstUsed)
    /\ UNCHANGED <<variant, hold1, dict, frozen, generation, readerVars, aborted>>
    /\ add_result' = NoResult
    /\ remapper' = NullRemapper
    /\ UNCHANGED <<compactVars, ioVars, lookup, mutVars>>

\* A reader takes a generation guard and a frozen view.
ReaderTakeView ==
    /\ ~aborted
    /\ reader_pc = "idle"
    /\ reader_pc' = "view"
    /\ reader_view' = getFrozenView
    /\ reader_gen' = generation
    /\ reader_vals' = Observed(getFrozenView, entries)
    /\ UNCHANGED <<variant, storeVars, dict, frozen, generation, aborted>>
    /\ add_result' = NoResult
    /\ remapper' = NullRemapper
    /\ UNCHANGED <<compactVars, ioVars, lookup, mutVars>>

\* The reader is done with its view and drops its guard.
ReaderRelease ==
    /\ ~aborted
    /\ reader_pc = "view"
    /\ reader_pc' = "idle"
    /\ reader_view' = <<>>
    /\ reader_gen' = 0
    /\ reader_vals' = <<>>
    /\ UNCHANGED <<variant, storeVars, dict, frozen, generation, aborted>>
    /\ add_result' = NoResult
    /\ remapper' = NullRemapper
    /\ UNCHANGED <<compactVars, ioVars, lookup, mutVars>>

\* The data store's accounting moves on as entries are allocated and freed.
StoreUsage(mem, as) ==
    /\ ~aborted
    /\ <<mem, as>> # <<store_mem, store_as>>
    /\ store_mem' = mem
    /\ store_as' = as
    /\ add_result' = NoResult
    /\ remapper' = NullRemapper
    /\ UNCHANGED <<variant, storeVars, dict, frozen, generation, readerVars, aborted,
                   cached_mem, cached_as, ioVars, lookup, mutVars>>

\* EnumStoreT::update_stat.
update_stat ==
    /\ ~aborted
    /\ cached_mem' = store_mem
    /\ cached_as' = store_as
    /\ add_result' = NoResult
    /\ remapper' = NullRemapper
    /\ UNCHANGED <<variant, storeVars, dict, frozen, generation, readerVars, aborted,
                   store_mem, store_as, ioVars, lookup, mutVars>>

\* consider_compact that asks the data store for its usage.
consider_compact_Uncached(strategy) ==
    /\ ~aborted
    /\ IF compact_memory(store_mem, strategy) \/ compact_address_space(store_as, strategy)
       THEN \E M \in Movable(dict, entries) :
               LET r == StoreCompactWorst(dict, entries, hold1, M)
               IN /\ dict' = r.dict
                  /\ frozen' = r.dict
                  /\ entries' = r.entries
                  /\ hold1' = r.hold1
                  /\ remapper' = [valid |-> TRUE, map |-> r.map]
       ELSE /\ remapper' = NullRemapper
            /\ UNCHANGED <<dict, frozen, entries, hold1>>
    /\ add_result' = NoResult
    /\ UNCHANGED <<variant, hold2, generation, readerVars, aborted,
                   store_mem, store_as, cached_mem, cached_as, ioVars, lookup, mutVars>>

\* EnumStoreT::consider_compact(compaction_strategy).
consider_compact(strategy) ==
    /\ ~aborted
    /\ IF compact_memory(cached_mem, strategy) \/ compact_address_space(cached_as, strategy)
       THEN \E M \in Movable(dict, entries) :
               LET r == StoreCompactWorst(dict, entries, hold1, M)
               IN /\ dict' = r.dict
                  /\ frozen' = r.dict
                  /\ entries' = r.entries
                  /\ hold1' = r.hold1
                  /\ remapper' = [valid |-> TRUE, map |-> r.map]
       ELSE /\ remapper' = NullRemapper
            /\ UNCHANGED <<dict, frozen, entries, hold1>>
    /\ add_result' = NoResult
    /\ UNCHANGED <<variant, hold2, generation, readerVars, aborted,
                   store_mem, store_as, cached_mem, cached_as, ioVars, lookup, mutVars>>

\* EnumStoreDictionary::writeAllValues with the frozen root: up to the loop.
WriteBegin ==
    /\ ~aborted
    /\ io_pc = "idle"
    /\ io_pc' = "write"
    /\ wr_it' = 1
    /\ wr_idxs' = <<>>
    /\ wr_capacity' \in Reserve(BATCHSIZE)
    /\ wr_batches' = <<>>
    /\ writer' = <<>>
    /\ add_result' = NoResult
    /\ remapper' = NullRemapper
    /\ UNCHANGED <<variant, storeVars, dict, frozen, generation, readerVars, aborted,
                   compactVars, lookup, mutVars, loadVars>>

\* writeAllValues: one iteration of the loop.
WriteStep ==
    /\ ~aborted
    /\ io_pc = "write"
    /\ Valid(getFrozenView, wr_it)
    /\ IF BatchFull(wr_idxs, wr_capacity)
       THEN /\ writer' = writer \o writeValues(entries, wr_idxs)
            /\ wr_batches' = Append(wr_batches, Len(wr_idxs))
            /\ wr_idxs' = <<getFrozenView[wr_it].key>>
       ELSE /\ wr_idxs' = Append(wr_idxs, getFrozenView[wr_it].key)
            /\ UNCHANGED <<writer, wr_batches>>
    /\ wr_it' = wr_it + 1
    /\ add_result' = NoResult
    /\ remapper' = NullRemapper
    /\ UNCHANGED <<variant, storeVars, dict, frozen, generation, readerVars, aborted,
                   compactVars, lookup, mutVars, io_pc, wr_capacity, loadVars>>

\* writeAllValues: after the loop.
WriteEnd ==
    /\ ~aborted
    /\ io_pc = "write"
    /\ ~Valid(getFrozenView, wr_it)
    /\ IF wr_idxs # <<>>
       THEN /\ writer' = writer \o writeValues(entries, wr_idxs)
            /\ wr_batches' = Append(wr_batches, Len(wr_idxs))
       ELSE UNCHANGED <<writer, wr_batches>>
    /\ io_pc' = "written"
    /\ add_result' = NoResult
    /\ remapper' = NullRemapper
    /\ UNCHANGED <<variant, storeVars, dict, frozen, generation, readerVars, aborted,
                   compactVars, lookup, mutVars, wr_it, wr_idxs, wr_capacity, loadVars>>

\* EnumStoreT::load_unique_values(src, available, idx) of an empty enum store:
\* up to the loop of load_unique_values_internal.
LoadBegin(src) ==
    /\ ~aborted
    /\ io_pc = "written"
    /\ io_pc' = "load"
    /\ ld_src' = src
    /\ ld_left' = Len(src)
    /\ ld_prev' = InvalidRef
    /\ ld_entries' = <<>>
    /\ ld_idx' = <<>>
    /\ ld_dict' = <<>>
    /\ ld_ret' = 0
    /\ add_result' = NoResult
    /\ remapper' = NullRemapper
    /\ UNCHANGED <<variant, storeVars, dict, frozen, generation, readerVars, aborted,
                   compactVars, lookup, mutVars, writeVars>>

\* load_unique_values_internal: one iteration of the loop, with its call of
\* load_unique_value; a negative size ends load_unique_values.
LoadStep ==
    /\ ~aborted
    /\ io_pc = "load"
    /\ ld_left > 0
    /\ IF Truncated(ld_left)
       THEN /\ ld_ret' = -1
            /\ io_pc' = "loaded"
            /\ UNCHANGED <<ld_entries, ld_prev, ld_idx, ld_left, aborted>>
       ELSE LET value == Decode(ld_src, Len(ld_src) - ld_left)
            IN /\ ld_entries' = LoadAllocate(ld_entries, value)
               /\ ld_prev' = Len(ld_entries')
               /\ aborted' = IF ld_prev # InvalidRef
                             THEN ~(ld_entries[ld_prev].value < value)
                             ELSE FALSE
               /\ ld_idx' = IF aborted' THEN ld_idx ELSE Append(ld_idx, ld_prev')
               /\ ld_left' = IF aborted' THEN ld_left ELSE ld_left - RecordSize
               /\ UNCHANGED <<ld_ret, io_pc>>
    /\ add_result' = NoResult
    /\ remapper' = NullRemapper
    /\ UNCHANGED <<variant, storeVars, dict, frozen, generation, readerVars,
                   compactVars, lookup, mutVars, writeVars, ld_src, ld_dict>>

\* load_unique_values: after the loop, the tree is built and the number of
\* bytes consumed is returned.
LoadEnd ==
    /\ ~aborted
    /\ io_pc = "load"
    /\ ld_left = 0
    /\ ld_ret' = Len(ld_src) - ld_left
    /\ ld_dict' = DictBuild(ld_idx)
    /\ io_pc' = "loaded"
    /\ add_result' = NoResult
    /\ remapper' = NullRemapper
    /\ UNCHANGED <<variant, storeVars, dict, frozen, generation, readerVars, aborted,
                   compactVars, lookup, mutVars, writeVars, ld_src, ld_left, ld_prev, ld_entries, ld_idx>>

\* A caller looks v up: the output handle is assigned only when the lookup
\* has found a key.
Lookup(kind, v) ==
    /\ ~aborted
    /\ LET r == LookupResult(kind, v)
       IN lookup' = [found |-> r.found, out |-> IF r.found THEN r.idx ELSE lookup.out]
    /\ add_result' = NoResult
    /\ remapper' = NullRemapper
    /\ UNCHANGED <<variant, storeVars, dict, frozen, generation, readerVars, aborted,
                   compactVars, ioVars, mutVars>>

\* EnumStoreFoldedDictionary::add up to the test for a posting list to move:
\* lowerBound, the early return, insertEntry(), insert and ++it.
HandOffAddBegin(v) ==
    /\ ~aborted
    /\ variant = "folded"
    /\ mut_pc = "idle"
    /\ CanAdd(dict, entries, v)
    /\ LET it == LowerBound(dict, entries, v, InvalidRef)
       IN IF Valid(dict, it) /\ ~Less(entries, v, InvalidRef, dict[it].key)
          THEN /\ add_result' = [ref |-> dict[it].key, inserted |-> FALSE]
               /\ UNCHANGED <<entries, dict, mutVars>>
          ELSE LET newRef == NextSlot(entries)
                   ent1 == Allocate(entries, newRef, v)
                   t1 == InsertAt(dict, it, [key |-> newRef, data |-> InvalidRef])
                   nx == it + 1
               IN /\ entries' = ent1
                  /\ dict' = t1
                  /\ thawed' = Thaw(thawed, newRef)
                  /\ mut_it' = nx
                  /\ mut_ref' = newRef
                  /\ add_result' = [ref |-> newRef, inserted |-> TRUE]
                  /\ IF Valid(t1, nx) /\ t1[nx].data # InvalidRef
                        /\ ~FoldedLess(ent1, v, newRef, t1[nx].key)
                     THEN mut_pc' = "add_clear" /\ mut_posting' = t1[nx].data
                     ELSE mut_pc' = "done" /\ mut_posting' = InvalidRef
    /\ remapper' = NullRemapper
    /\ UNCHANGED <<variant, hold1, hold2, frozen, generation, readerVars, aborted,
                   compactVars, ioVars, lookup, swp_unused>>

\* add: _dict.thaw(it) and it.writeData(EntryRef()) at the next key.
HandOffAddClear ==
    /\ ~aborted
    /\ mut_pc = "add_clear"
    /\ thawed' = Thaw(thawed, dict[mut_it].key)
    /\ dict' = WriteData(dict, mut_it, InvalidRef)
    /\ frozen' = SharedWrite(frozen, thawed', dict[mut_it].key, InvalidRef)
    /\ reader_view' = SharedWrite(reader_view, thawed', dict[mut_it].key, InvalidRef)
    /\ mut_pc' = "add_write"
    /\ UNCHANGED <<variant, storeVars, generation, reader_pc, reader_gen, reader_vals,
                   aborted, add_result, remapper, compactVars, ioVars, lookup,
                   mut_it, mut_ref, mut_posting, swp_unused>>

\* add: --it, the assertion and it.writeData(posting_list_ref) at the new key.
HandOffAddWrite ==
    /\ ~aborted
    /\ mut_pc = "add_write"
    /\ LET it == mut_it - 1
       IN IF ~(Valid(dict, it) /\ dict[it].key = mut_ref)
          THEN /\ aborted' = TRUE
               /\ UNCHANGED <<dict, frozen, reader_view, mut_it, mut_pc>>
          ELSE /\ dict' = WriteData(dict, it, mut_posting)
               /\ frozen' = SharedWrite(frozen, thawed, mut_ref, mut_posting)
               /\ reader_view' = SharedWrite(reader_view, thawed, mut_ref, mut_posting)
               /\ mut_it' = it
               /\ mut_pc' = "done"
               /\ UNCHANGED aborted
    /\ UNCHANGED <<variant, storeVars, generation, reader_pc, reader_gen, reader_vals,
                   add_result, remapper, compactVars, ioVars, lookup,
                   mut_ref, mut_posting, thawed, swp_unused>>

\* EnumStoreFoldedDictionary::remove up to the test for a posting list to hand
\* on: the assertions, lowerBound and the removal, after which it is at the
\* key that followed.
HandOffRemoveBegin(ref) ==
    /\ ~aborted
    /\ variant = "folded"
    /\ mut_pc = "idle"
    /\ IF ref = InvalidRef
       THEN aborted' = TRUE /\ UNCHANGED <<dict, mutVars>>
       ELSE LET it == LowerBound(dict, entries, 0, ref)
            IN IF ~(Valid(dict, it) /\ dict[it].key = ref)
               THEN aborted' = TRUE /\ UNCHANGED <<dict, mutVars>>
               ELSE LET posting_list_ref == dict[it].data
                        t1 == RemoveAt(dict, it)
                    IN /\ dict' = t1
                       /\ mut_it' = it
                       /\ mut_ref' = ref
                       /\ mut_posting' = posting_list_ref
                       /\ mut_pc' = IF posting_list_ref # InvalidRef /\ Valid(t1, it)
                                       /\ t1[it].data = InvalidRef
                                       /\ ~FoldedLess(entries, 0, ref, t1[it].key)
                                    THEN "remove_write" ELSE "done"
                       /\ UNCHANGED <<aborted, thawed>>
    /\ add_result' = NoResult
    /\ remapper' = NullRemapper
    /\ UNCHANGED <<variant, storeVars, frozen, generation, readerVars,
                   compactVars, ioVars, lookup, swp_unused>>

\* remove: _dict.thaw(it) and it.writeData(posting_list_ref) at the key that
\* followed the removed one.
HandOffRemoveWrite ==
    /\ ~aborted
    /\ mut_pc = "remove_write"
    /\ thawed' = Thaw(thawed, dict[mut_it].key)
    /\ dict' = WriteData(dict, mut_it, mut_posting)
    /\ frozen' = SharedWrite(frozen, thawed', dict[mut_it].key, mut_posting)
    /\ reader_view' = SharedWrite(reader_view, thawed', dict[mut_it].key, mut_posting)
    /\ mut_pc' = "done"
    /\ UNCHANGED <<variant, storeVars, generation, reader_pc, reader_gen, reader_vals,
                   aborted, add_result, remapper, compactVars, ioVars, lookup,
                   mut_it, mut_ref, mut_posting, swp_unused>>

\* The mutator's operation is complete and the tree is frozen: the frozen root
\* becomes the live one, and every node is shared again.
HandOffFreeze ==
    /\ ~aborted
    /\ mut_pc = "done"
    /\ frozen' = dict
    /\ thawed' = {}
    /\ mut_pc' = "idle"
    /\ UNCHANGED <<variant, storeVars, dict, generation, readerVars, aborted,
                   add_result, remapper, compactVars, ioVars, lookup,
                   mut_it, mut_ref, mut_posting, swp_unused>>

(* ------------------------ sweeps, step by step ------------------------ *)

\* The steps of a sweep leave everything but the tree, the first hold list, the
\* end of the program and the sweep's own position as it was.
SweepFrame ==
    /\ add_result' = NoResult
    /\ remapper' = NullRemapper
    /\ UNCHANGED <<variant, entries, hold2, generation, readerVars, compactVars,
                   ioVars, lookup, mut_it, mut_ref, mut_posting, thawed>>

\* A scan that gives the unused entries back to the allocator at once.
SweepScan_Reclaim ==
    /\ ~aborted
    /\ mut_pc = "idle"
    /\ LET acc == ScanUnused(entries, KeySeq(dict), [unused |-> {}, hold1 |-> hold1])
       IN /\ swp_unused' = acc.unused
          /\ entries' = [s \in Index |-> IF s \in acc.unused THEN FreeEntry ELSE entries[s]]
    /\ mut_pc' = "sweep"
    /\ add_result' = NoResult
    /\ remapper' = NullRemapper
    /\ UNCHANGED <<variant, hold1, hold2, generation, readerVars, compactVars,
                   ioVars, lookup, mut_it, mut_ref, mut_posting, thawed>>
    /\ UNCHANGED <<dict, frozen, aborted>>

\* freeUnusedEnums(cmp), the scan: freeUnusedEnum for every key of the tree, in
\* the order of the tree; the unused ones are on hold before any is removed.
SweepScan ==
    /\ ~aborted
    /\ mut_pc = "idle"
    /\ LET acc == ScanUnused(entries, KeySeq(dict), [unused |-> {}, hold1 |-> hold1])
       IN /\ swp_unused' = acc.unused
          /\ hold1' = acc.hold1
    /\ mut_pc' = "sweep"
    /\ SweepFrame
    /\ UNCHANGED <<dict, frozen, aborted>>

\* freeUnusedEnums(toRemove, cmp), the scan: freeUnusedEnum for every candidate.
SweepScanOf(toRemove) ==
    /\ ~aborted
    /\ mut_pc = "idle"
    /\ LET acc == ScanUnused(entries, Ascending(toRemove), [unused |-> {}, hold1 |-> hold1])
       IN /\ swp_unused' = acc.unused
          /\ hold1' = acc.hold1
    /\ mut_pc' = "sweep"
    /\ SweepFrame
    /\ UNCHANGED <<dict, frozen, aborted>>

\* removeUnusedEnums, one turn of its loop: remove(cmp, ref) for the next
\* unused index; the comparator resolves the keys through the store as it is.
SweepRemove ==
    /\ ~aborted
    /\ mut_pc = "sweep"
    /\ swp_unused # {}
    /\ LET ref == MinOf(swp_unused)
           r == DictRemove(variant, dict, entries, ref)
       IN /\ dict' = r.dict
          /\ aborted' = r.aborted
          /\ swp_unused' = swp_unused \ {ref}
    /\ SweepFrame
    /\ UNCHANGED <<hold1, frozen, mut_pc>>

\* removeUnusedEnums returns (at once when unused is empty) and the sweep is
\* complete: the tree is frozen.
SweepEnd ==
    /\ ~aborted
    /\ mut_pc = "sweep"
    /\ swp_unused = {}
    /\ frozen' = dict
    /\ mut_pc' = "idle"
    /\ SweepFrame
    /\ UNCHANGED <<dict, hold1, aborted, swp_unused>>

(* --------------------------- specifications -------------------------- *)

\* The enum store and its mutator thread: values are added, referenced,
\* released and swept, and held entries are reclaimed generation by generation.
Next ==
    \/ \E v \in Values : AddEnum(v)
    \/ \E idx \in Index : IncRefCount(idx)
    \/ \E idx \in Index : DecRefCount(idx)
    \/ FreeUnusedEnums
    \/ \E toRemove \in SUBSET UsedSlots(entries) : FreeUnusedEnumsOf(toRemove)
    \/ TransferHoldLists
    \/ IncGeneration
    \/ \E firstUsed \in Generations : TrimHoldLists(firstUsed)

Spec == Init /\ [][Next]_vars

\* The dictionary with its payloads: adds, sweeps and removes while the posting
\* list attribute attaches and detaches posting lists.
NextDict ==
    \/ \E v \in Values : AddEnum(v)
    \/ \E idx \in Index : IncRefCount(idx)
    \/ \E idx \in Index : DecRefCount(idx)
    \/ FreeUnusedEnums
    \/ \E toRemove \in SUBSET UsedSlots(entries) : FreeUnusedEnumsOf(toRemove)
    \/ \E ref \in Index \cup {InvalidRef} : Remove(ref)
    \/ \E it \in 1..NumSlots, p \in PostingRefs \cup {InvalidRef} : PostingWrite(it, p)

SpecDict == Init /\ [][NextDict]_vars

\* A reader beside the mutator: the reader takes and drops frozen views while
\* the mutator adds, sweeps and reclaims.
NextReader ==
    \/ \E v \in Values : AddEnum(v)
    \/ FreeUnusedEnums
    \/ TransferHoldLists
    \/ IncGeneration
    \/ \E firstUsed \in Generations : TrimHoldLists(firstUsed)
    \/ ReaderTakeView
    \/ ReaderRelease

SpecReader == Init /\ [][NextReader]_vars

\* Compaction: the store fills, its usage is cached and the compaction policy
\* is consulted.
NextCompact ==
    \/ \E v \in Values : AddEnum(v)
    \/ \E idx \in Index : IncRefCount(idx)
    \/ \E usage \in StoreUsages : StoreUsage(usage[1], usage[2])
    \/ update_stat
    \/ \E strategy \in Strategies : consider_compact(strategy)

\* Payload hand-off: folded adds and removes are taken step by step, posting
\* lists are written between them, and a reader takes frozen views meanwhile.
NextHandOff ==
    \/ \E v \in Values : HandOffAddBegin(v)
    \/ HandOffAddClear
    \/ HandOffAddWrite
    \/ \E ref \in Keys(dict) : HandOffRemoveBegin(ref)
    \/ HandOffRemoveWrite
    \/ HandOffFreeze
    \/ \E it \in 1..NumSlots, p \in PostingRefs : mut_pc = "idle" /\ PostingWrite(it, p)
    \/ mut_pc = "idle" /\ FreeUnusedEnums
    \/ ReaderTakeView
    \/ ReaderRelease

\* Only the folded dictionary hands posting lists on.
InitHandOff == Init /\ variant = "folded"

SpecHandOff == InitHandOff /\ [][NextHandOff]_vars

\* Lookups: values are added and swept, and callers look values up.
NextLookup ==
    \/ \E v \in Values : AddEnum(v)
    \/ FreeUnusedEnums
    \/ \E kind \in LookupKinds, v \in Values : Lookup(kind, v)

SpecLookup == Init /\ [][NextLookup]_vars

\* Dump and load: a store is filled, or starts with many values, its values
\* are written and the written bytes are loaded into an empty store.
InitIO == Init \/ \E n \in BulkSizes : InitBulk(n)

NextIO ==
    \/ \E v \in Values : io_pc = "idle" /\ DOMAIN entries = Index /\ AddEnum(v)
    \/ WriteBegin
    \/ WriteStep
    \/ WriteEnd
    \/ \E src \in Supplied(writer) : LoadBegin(src)
    \/ LoadStep
    \/ LoadEnd

SpecIO == InitIO /\ [][NextIO]_vars

\* The sweeps taken step by step on the single mutator thread, which starts
\* its next operation when the sweep is complete.
NextSweep ==
    \/ mut_pc = "idle" /\ \E v \in Values : AddEnum(v)
    \/ mut_pc = "idle" /\ \E idx \in Index : IncRefCount(idx)
    \/ mut_pc = "idle" /\ \E idx \in Index : DecRefCount(idx)
    \/ SweepScan
    \/ \E toRemove \in SUBSET UsedSlots(entries) : SweepScanOf(toRemove)
    \/ SweepRemove
    \/ SweepEnd
    \/ mut_pc = "idle" /\ TransferHoldLists
    \/ mut_pc = "idle" /\ IncGeneration
    \/ mut_pc = "idle" /\ \E firstUsed \in Generations : TrimHoldLists(firstUsed)
    \/ mut_pc = "idle" /\ \E it \in 1..NumSlots, p \in PostingRefs \cup {InvalidRef} :
                              PostingWrite(it, p)

SpecSweep == Init /\ [][NextSweep]_vars

\* The folded dictionary is the one whose tree carries payloads.
InitCompact == Init /\ variant = "folded"

SpecCompact == InitCompact /\ [][NextCompact]_vars

(* ------------------------------- claims ------------------------------- *)

ValueOf(ref) == entries[ref].value
ValuesOf(tree) == {ValueOf(tree[i].key) : i \in 1..Len(tree)}
KeyOfValue(tree, v) == CHOOSE k \in Keys(tree) : ValueOf(k) = v

\* C1: an in-order traversal of the live tree yields values in strictly
\* increasing order, so no two keys of the tree resolve to equal values
\* (plain and folded variant, after any adds, removes and sweeps).
C1_StrictOrder ==
    \A i \in 1..Len(dict), j \in 1..Len(dict) :
        i < j => /\ entries[dict[i].key].st = "used"
                 /\ entries[dict[j].key].st = "used"
                 /\ ValueOf(dict[i].key) < ValueOf(dict[j].key)

\* Two keys in the tree, the one in the second slot ordered first: the later
\* add was placed before the earlier one.
C1_Witness ==
    /\ Len(dict) = 2
    /\ dict[1].key = 2
    /\ dict[2].key = 1

\* C2: the first add of a value allocates one entry, inserts its Index and
\* reports inserted = TRUE; an add of a value that is a key already returns that
\* key with inserted = FALSE, allocates nothing and leaves the tree (keys and
\* payloads) and the store unchanged.
C2_AddOnce ==
    [][\A v \in Values : AddEnum(v) =>
          IF v \in ValuesOf(dict)
          THEN /\ add_result' = [ref |-> KeyOfValue(dict, v), inserted |-> FALSE]
               /\ dict' = dict
               /\ entries' = entries
          ELSE /\ add_result'.inserted
               /\ add_result'.ref \in FreeSlots(entries)
               /\ UsedSlots(entries') = UsedSlots(entries) \cup {add_result'.ref}
               /\ entries' = [entries EXCEPT ![add_result'.ref] =
                                 [st |-> "used", value |-> v, rc |-> 0]]
               /\ Keys(dict') = Keys(dict) \cup {add_result'.ref}
               /\ Len(dict') = Len(dict) + 1]_vars

\* An add of a value that was a key already has just returned.
C2_Witness ==
    /\ add_result.ref # InvalidRef
    /\ ~add_result.inserted
    /\ Len(dict) = 2

\* C3: the full sweep removes from the tree exactly the keys whose reference
\* count is zero when it scans, hands exactly those to the hold list, and keeps
\* every key whose reference count is greater than zero.
C3_FullSweep ==
    [][FreeUnusedEnums =>
          LET zero == {k \in Keys(dict) : entries[k].rc = 0}
          IN /\ Keys(dict') = Keys(dict) \ zero
             /\ \A k \in Keys(dict) : entries[k].rc > 0 => k \in Keys(dict')
             /\ hold1' = hold1 (+) SetToBag(zero)
             /\ ~aborted']_vars

\* A sweep has removed an unreferenced key and kept a referenced one.
C3_Witness ==
    /\ Len(dict) = 1
    /\ entries[dict[1].key].rc > 0
    /\ hold1 # EmptyBag

\* C6: in the folded dictionary a key that holds a posting list is the first
\* key of its run of folded-equal keys, so at most one key of a run holds one.
C6_PayloadOnFirstOfRun ==
    \A i \in 1..Len(dict) :
        dict[i].data # InvalidRef =>
            /\ variant = "folded"
            /\ \A j \in 1..Len(dict) :
                  j < i => Fold(ValueOf(dict[j].key)) # Fold(ValueOf(dict[i].key))

\* An add has just placed a new key before a folded-equal key and the new key
\* holds the posting list.
C6_Witness ==
    /\ add_result.inserted
    /\ Len(dict) = 2
    /\ dict[1].key = add_result.ref
    /\ dict[1].data # InvalidRef
    /\ Fold(ValueOf(dict[1].key)) = Fold(ValueOf(dict[2].key))

\* C4: a frozen view taken before a mutation never observes it: whatever the
\* mutator does afterwards, a traversal of the view yields the values and
\* payloads it yielded when it was taken, and a frozen lookup on it finds
\* exactly those values, each at the key the view holds for it.
C4_ViewIsolation ==
    reader_pc = "view" =>
        /\ Observed(reader_view, entries) = reader_vals
        /\ \A v \in Values :
              LET r == findFrozenIndex(reader_view, entries, v)
                  at == {i \in 1..Len(reader_vals) : reader_vals[i].value = v}
              IN /\ r.found <=> at # {}
                 /\ r.found => \A i \in at : reader_view[i].key = r.idx

\* The reader holds a view of one key while the live tree has two: the add
\* made after the view was taken shows in the live tree only.
C4_Witness ==
    /\ reader_pc = "view"
    /\ Len(reader_view) = 1
    /\ Len(dict) = 2
    /\ reader_view[1].key \in Keys(dict)

HeldSlots == BagToSet(hold1) \cup {e.ref : e \in BagToSet(hold2)}

\* C7: a held entry is left alone until trimHoldLists is called with a first
\* used generation greater than the generation it was tagged with; only then
\* is its slot freed, and only a free slot is allocated. So no slot is reused
\* while its entry is referenced, is a key of the live tree, or is a key of the
\* frozen view a reader holds.
C7_NoEarlyReuse ==
    /\ [](\A s \in Index :
            (\/ entries[s].rc > 0
             \/ s \in Keys(dict)
             \/ s \in HeldSlots
             \/ reader_pc = "view" /\ s \in Keys(reader_view))
            => entries[s].st = "used")
    /\ [][\A s \in Index :
            /\ (s \in HeldSlots /\ entries'[s] # entries[s]) =>
                  /\ entries'[s] = FreeEntry
                  /\ s \notin BagToSet(hold1)
                  /\ \E f \in Generations :
                        /\ TrimHoldLists(f)
                        /\ \A e \in BagToSet(hold2) : e.ref = s => e.gen < f
            /\ (entries'[s].st = "used"
                  /\ (entries[s].st = "free" \/ entries'[s].value # entries[s].value)) =>
                  /\ entries[s].st = "free"
                  /\ s \notin Keys(dict)
                  /\ s \notin HeldSlots
                  /\ ~(reader_pc = "view" /\ s \in Keys(reader_view))]_vars

\* A slot whose entry was held and trimmed has been allocated again while a
\* reader holds a view taken after the trim.
C7_Witness ==
    /\ generation = 2
    /\ reader_pc = "view"
    /\ Len(dict) = 2
    /\ hold1 = EmptyBag
    /\ hold2 = EmptyBag
    /\ add_result.inserted

\* The decision the original sentence of the specification describes: the dead
\* space must exceed the slack.
ExceedsSlack(usage, slack, ratio) ==
    usage.dead > slack /\ usage.dead * ratio.den > usage.used * ratio.num

\* The decision with the slack reached or exceeded.
ReachesSlack(usage, slack, ratio) ==
    usage.dead >= slack /\ usage.dead * ratio.den > usage.used * ratio.num

\* C8 as stated: consider_compact compacts (returns a remapper that is not
\* null) exactly when the cached dead bytes exceed 65536 and exceed the used
\* bytes times the strategy's ratio, or the same holds for the address space.
C8_CompactIffExceeds ==
    [][\A strategy \in Strategies :
          consider_compact(strategy) =>
              (remapper'.valid <=>
                  \/ ExceedsSlack(cached_mem, 65536, strategy.maxDeadBytesRatio)
                  \/ ExceedsSlack(cached_as, 65536, strategy.maxDeadAddressSpaceRatio))]_vars

\* C8, amended: consider_compact compacts exactly when the cached dead bytes are
\* at least 65536 and exceed the used bytes times the strategy's ratio, or the
\* cached dead address space is at least 65536 and exceeds the used address
\* space times its ratio; either dimension alone is sufficient.
C8_CompactIffReaches ==
    [][\A strategy \in Strategies :
          consider_compact(strategy) =>
              (remapper'.valid <=>
                  \/ ReachesSlack(cached_mem, 65536, strategy.maxDeadBytesRatio)
                  \/ ReachesSlack(cached_as, 65536, strategy.maxDeadAddressSpaceRatio))]_vars

\* A compaction was done with the dead bytes exactly at the slack and the dead
\* address space below it.
C8_Witness ==
    /\ remapper.valid
    /\ cached_mem.dead = 65536
    /\ cached_as.dead < 65536

\* C9: after a compaction, the remapper applied to any Index that was live
\* before it names a valid entry with the same value and the same reference
\* count, and the dictionary holds the same values in the same order with the
\* same payloads, its keys being the remapped ones.
C9_RemapComplete ==
    [][\A strategy \in Strategies :
          (consider_compact(strategy) /\ remapper'.valid) =>
              /\ DOMAIN remapper'.map = Index
              /\ \A k \in Keys(dict) :
                    /\ remapper'.map[k] \in Index
                    /\ entries'[remapper'.map[k]].st = "used"
                    /\ entries'[remapper'.map[k]].value = entries[k].value
                    /\ entries'[remapper'.map[k]].rc = entries[k].rc
              /\ Len(dict') = Len(dict)
              /\ \A i \in 1..Len(dict) :
                    /\ dict'[i].key = remapper'.map[dict[i].key]
                    /\ dict'[i].data = dict[i].data
              /\ Observed(dict', entries') = Observed(dict, entries)
              /\ ~aborted']_vars

\* A compaction has moved an entry that is referenced: its old Index is on
\* hold and its new one is a key of the dictionary.
C9_Witness ==
    /\ remapper.valid
    /\ \E k \in Index :
          /\ remapper.map[k] # k
          /\ remapper.map[k] \in Keys(dict)
          /\ k \notin Keys(dict)
          /\ entries[remapper.map[k]].rc > 0
          /\ BagIn(k, hold1)

\* C10: when the bytes that writeAllValues has written for a dictionary are
\* loaded whole into an empty enum store, the load does not fail, and when it
\* is done load_unique_values has returned the number of bytes supplied and the
\* loaded store has the same values in the same order and the same number of
\* unique values.
C10_RoundTrip ==
    (io_pc \in {"load", "loaded"} /\ ld_src = writer) =>
        /\ ~aborted
        /\ io_pc = "loaded" =>
              /\ ld_ret = Len(writer)
              /\ Observed(ld_dict, ld_entries) = Observed(getFrozenView, entries)
              /\ Len(ld_dict) = Len(dict)

\* Two values, the larger one added first, have been written and loaded whole.
C10_Witness ==
    /\ io_pc = "loaded"
    /\ ld_src = writer
    /\ Len(wr_batches) = 1
    /\ Len(dict) = 2
    /\ dict[1].key > dict[2].key
    /\ Len(ld_dict) = 2
    /\ ld_ret = 4

\* C11: load_unique_values returns a negative size exactly when the length of
\* the buffer is not a whole multiple of the record size; then the tree is left
\* as it was before the call; otherwise it returns the number of bytes
\* supplied and the index vector names one entry per record, in the order of
\* the records.
C11_LoadSentinel ==
    /\ [](io_pc = "loaded" =>
            /\ (ld_ret < 0) <=> (Len(ld_src) % RecordSize # 0)
            /\ ld_ret < 0 => ld_dict = <<>>
            /\ ld_ret >= 0 =>
                  /\ ld_ret = Len(ld_src)
                  /\ Len(ld_idx) * RecordSize = Len(ld_src)
                  /\ \A i \in 1..Len(ld_idx) :
                        /\ ld_entries[ld_idx[i]].st = "used"
                        /\ ld_entries[ld_idx[i]].value = Decode(ld_src, (i - 1) * RecordSize)
                  /\ Keys(ld_dict) = {ld_idx[i] : i \in 1..Len(ld_idx)})
    /\ [][(io_pc = "load" /\ io_pc' = "loaded" /\ ld_ret' < 0) => ld_dict' = ld_dict]_vars

\* A buffer that ends in the middle of its second record has been refused.
C11_Witness ==
    /\ io_pc = "loaded"
    /\ ld_ret = -1
    /\ Len(ld_src) = RecordSize + 1
    /\ Len(ld_idx) = 1
    /\ ld_dict = <<>>

\* The positions of the keys of a tree whose values are folded-equal to v.
FoldedEqualAt(tree, v) == {i \in 1..Len(tree) : Fold(ValueOf(tree[i].key)) = Fold(v)}

\* C12: for every probe, findMatchingEnums returns the keys of the frozen view
\* whose values are folded-equal to the probe, each once and in the order of
\* the tree, and the empty list when there is none.
C12_FoldedMatches ==
    \A v \in Values :
        LET result == findMatchingEnums(getFrozenView, entries, v)
            at == Ascending(FoldedEqualAt(getFrozenView, v))
        IN /\ Len(result) = Len(at)
           /\ \A j \in 1..Len(at) : result[j] = getFrozenView[at[j]].key
           /\ \A i, j \in 1..Len(result) :
                 i < j => ValueOf(result[i]) < ValueOf(result[j])

\* The frozen view holds two folded-equal values, the larger one in the lower
\* slot, both are found for either as probe, and nothing is found for a probe
\* that folds differently.
C12_Witness ==
    /\ Len(getFrozenView) = 2
    /\ Fold(ValueOf(getFrozenView[1].key)) = Fold(ValueOf(getFrozenView[2].key))
    /\ getFrozenView[1].key > getFrozenView[2].key
    /\ findMatchingEnums(getFrozenView, entries, ValueOf(getFrozenView[2].key))
          = <<getFrozenView[1].key, getFrozenView[2].key>>
    /\ \E v \in Values : findMatchingEnums(getFrozenView, entries, v) = <<>>

RECURSIVE SumSeq(_)
\* The sum of a sequence of numbers.
SumSeq(s) == IF s = <<>> THEN 0 ELSE Head(s) + SumSeq(Tail(s))

\* C13: writeAllValues hands the keys of the tree it traverses to writeValues
\* in batches of 1 to 1000 keys; what the batches have written is, in order,
\* the values of the keys written so far, and when it is done that is the value
\* of every key of the tree, once and in tree order; for an empty tree nothing
\* is written.
C13_Batches ==
    io_pc \in {"write", "written"} =>
        /\ \A b \in 1..Len(wr_batches) : wr_batches[b] >= 1 /\ wr_batches[b] <= 1000
        /\ Len(writer) = RecordSize * SumSeq(wr_batches)
        /\ io_pc = "write" => SumSeq(wr_batches) + Len(wr_idxs) = wr_it - 1
        /\ io_pc = "written" =>
              /\ wr_idxs # <<>> => wr_batches[Len(wr_batches)] = Len(wr_idxs)
              /\ SumSeq(wr_batches) = Len(getFrozenView)
              /\ \A i \in 1..Len(getFrozenView) :
                    Decode(writer, (i - 1) * RecordSize) = ValueOf(getFrozenView[i].key)
              /\ getFrozenView = <<>> => (wr_batches = <<>> /\ writer = <<>>)

\* A tree of 1001 keys has been written as a batch of 1000 and a batch of 1.
C13_Witness ==
    /\ io_pc = "written"
    /\ wr_batches = <<1000, 1>>
    /\ Len(writer) = 1001 * RecordSize

\* C14: a lookup (findIndex in the live tree, findFrozenIndex and findEnum in
\* the frozen one) returns found exactly when a key of its tree has the value
\* looked up, and then the output handle is that key; otherwise it returns not
\* found and leaves the output handle as it was; in both cases the tree and the
\* store are unchanged and the program goes on.
C14_LookupNotFound ==
    [][\A kind \in LookupKinds, v \in Values :
          Lookup(kind, v) =>
              LET tree == IF kind = "findIndex" THEN dict ELSE getFrozenView
              IN /\ lookup'.found <=> v \in ValuesOf(tree)
                 /\ lookup'.found => (lookup'.out \in Keys(tree) /\ ValueOf(lookup'.out) = v)
                 /\ ~lookup'.found => lookup'.out = lookup.out
                 /\ UNCHANGED <<dict, frozen, entries, hold1, hold2>>
                 /\ ~aborted']_vars

\* A lookup has found nothing while the tree holds a larger value, and the
\* caller's handle is still the one an earlier lookup has found.
C14_Witness ==
    /\ ~lookup.found
    /\ lookup.out # InvalidRef
    /\ Len(dict) = 1
    /\ lookup.out = dict[1].key
    /\ ValueOf(dict[1].key) > 1

\* C15: a remove of an Index that is not a key of the tree, or of the invalid
\* Index, ends the program with the tree as it was, whether remove is called
\* itself or by a sweep for a candidate nobody refers to; no remove changes
\* the tree other than by taking out the key it was called for; and a program
\* that has ended takes no further step.
C15_RemoveAbsentAborts ==
    [][/\ ~aborted
       /\ (storeVars' = storeVars /\ add_result' = NoResult) =>
             \A ref \in Index \cup {InvalidRef} :
                 Remove(ref) =>
                     IF ref \in Keys(dict)
                     THEN ~aborted' /\ Keys(dict') = Keys(dict) \ {ref}
                     ELSE aborted' /\ dict' = dict
       /\ (entries' = entries /\ hold2' = hold2 /\ add_result' = NoResult) =>
             \A toRemove \in SUBSET Index :
                 ((\E idx \in toRemove : idx \notin Keys(dict) /\ entries[idx].rc = 0)
                     /\ FreeUnusedEnumsOf(toRemove))
                     => aborted' /\ Keys(dict') \subseteq Keys(dict)]_vars

\* A key was removed and a further remove of an Index that is not a key has ended
\* the program, the other key still in the tree.
C15_Witness ==
    /\ aborted
    /\ Len(dict) = 1
    /\ hold1 = EmptyBag
    /\ Cardinality(UsedSlots(entries)) = 2

\* The position of the key ref in a tree.
PositionOf(tree, ref) == CHOOSE i \in 1..Len(tree) : tree[i].key = ref

\* The payloads of a tree that are not null, as a bag.
Payloads(tree) ==
    LET held == {i \in 1..Len(tree) : tree[i].data # InvalidRef}
    IN [p \in {tree[i].data : i \in held} |-> Cardinality({i \in held : tree[i].data = p})]

\* C16: in the folded dictionary, the remove of a key that holds a posting list
\* P leaves P with the key's successor when the successor is folded-equal to it
\* and holds none, and otherwise (no successor, or one that is not
\* folded-equal) leaves P with no key of the tree; every other key keeps what
\* it held.
C16_RemoveHandsForward ==
    [][\A ref \in Index :
          (Remove(ref) /\ variant = "folded" /\ ref \in Keys(dict)) =>
              LET it == PositionOf(dict, ref)
                  P == dict[it].data
                  handed == /\ P # InvalidRef
                            /\ it < Len(dict)
                            /\ Fold(ValueOf(dict[it + 1].key)) = Fold(ValueOf(ref))
                            /\ dict[it + 1].data = InvalidRef
              IN /\ Len(dict') = Len(dict) - 1
                 /\ \A j \in 1..Len(dict') :
                       LET old == IF j < it THEN dict[j] ELSE dict[j + 1]
                       IN /\ dict'[j].key = old.key
                          /\ dict'[j].data = IF handed /\ j = it THEN P ELSE old.data
                 /\ (P # InvalidRef /\ ~handed) =>
                       \A j \in 1..Len(dict') : dict'[j].data # P]_vars

\* The second key of a run of two folded-equal keys is alone in the tree and
\* holds a posting list, the first one having been removed.
C16_Witness ==
    /\ ~aborted
    /\ variant = "folded"
    /\ Len(dict) = 1
    /\ dict[1].data # InvalidRef
    /\ hold1 = EmptyBag
    /\ \E s \in UsedSlots(entries) \ Keys(dict) :
          /\ Fold(entries[s].value) = Fold(ValueOf(dict[1].key))
          /\ entries[s].value < ValueOf(dict[1].key)

\* C17: in the folded dictionary, an add that inserts a new key immediately
\* before a folded-equal key holding a posting list P leaves P with the new key
\* and none with that next key; any other inserting add leaves the new key with
\* none; the bag of posting lists held in the tree is the same before and
\* after, and every key other than the new one and its successor holds what it
\* held.
C17_AddConservesPayloads ==
    [][\A v \in Values :
          (AddEnum(v) /\ variant = "folded" /\ add_result'.inserted) =>
              LET it == PositionOf(dict', add_result'.ref)
                  moved == /\ it <= Len(dict)
                           /\ dict[it].data # InvalidRef
                           /\ Fold(ValueOf(dict[it].key)) = Fold(v)
              IN /\ Len(dict') = Len(dict) + 1
                 /\ dict'[it].data = IF moved THEN dict[it].data ELSE InvalidRef
                 /\ moved => dict'[it + 1].data = InvalidRef
                 /\ Payloads(dict') = Payloads(dict)
                 /\ \A j \in 1..Len(dict) :
                       /\ dict'[IF j < it THEN j ELSE j + 1].key = dict[j].key
                       /\ (j # it \/ ~moved) =>
                             dict'[IF j < it THEN j ELSE j + 1].data = dict[j].data]_vars

\* An add has just placed a new key before a folded-equal key: the new key
\* holds the posting list and the other key holds none.
C17_Witness ==
    /\ variant = "folded"
    /\ add_result.inserted
    /\ Len(dict) = 2
    /\ dict[1].key = add_result.ref
    /\ dict[1].data # InvalidRef
    /\ dict[2].data = InvalidRef
    /\ Fold(ValueOf(dict[1].key)) = Fold(ValueOf(dict[2].key))
    /\ Payloads(dict) = SetToBag({dict[1].data})

\* The keys of a tree that hold a posting list and whose value folds to f.
HoldersOf(tree, f) ==
    {i \in 1..Len(tree) : tree[i].data # InvalidRef /\ Fold(ValueOf(tree[i].key)) = f}

\* C18: while the mutator is inside a folded add or remove, the payload moved
\* from one key to another, the frozen tree shows what it showed when it was
\* frozen: only the freeze that follows the operation changes what a traversal
\* of it yields, a view taken by a reader yields what it yielded when it was
\* taken, and in the frozen tree no run of folded-equal keys has two holders
\* of a posting list.
C18_NoIntermediateState ==
    /\ [][(mut_pc # "idle" \/ mut_pc' # "idle") =>
             \/ mut_pc = "done" /\ mut_pc' = "idle"
             \/ Observed(frozen', entries') = Observed(frozen, entries)]_vars
    /\ [](reader_pc = "view" => Observed(reader_view, entries) = reader_vals)
    /\ [](\A v \in Values : Cardinality(HoldersOf(getFrozenView, Fold(v))) <= 1)

\* A reader has taken its view while the mutator is between clearing the
\* posting list of the old holder and writing it to the new key: no key of the
\* live tree holds it, and the view shows the old holder with it.
C18_Witness ==
    /\ mut_pc = "add_write"
    /\ reader_pc = "view"
    /\ reader_view = getFrozenView
    /\ Len(dict) = 2
    /\ dict[1].data = InvalidRef /\ dict[2].data = InvalidRef
    /\ Len(reader_view) = 1
    /\ reader_view[1].data = mut_posting
    /\ mut_posting # InvalidRef

\* The candidates of a targeted sweep that nobody refers to when it scans.
ZeroOf(toRemove) == {k \in toRemove : entries[k].rc = 0}

\* What a targeted sweep that runs to its end leaves: the candidates nobody
\* refers to are out of the tree and on hold, every other key is in the tree
\* with its payload and nothing else is on hold, the entries are as they were,
\* and with no such candidate the tree and the hold list are as they were.
SweptExactly(toRemove) ==
    /\ ~aborted'
    /\ Keys(dict') = Keys(dict) \ ZeroOf(toRemove)
    /\ \A i \in 1..Len(dict) :
          dict[i].key \notin ZeroOf(toRemove) =>
              \E j \in 1..Len(dict') : dict'[j] = dict[i]
    /\ hold1' = hold1 (+) SetToBag(ZeroOf(toRemove))
    /\ entries' = entries
    /\ ZeroOf(toRemove) = {} => (dict' = dict /\ hold1' = hold1)

C20_CachedStatsOnly ==
    /\ [][\A strategy \in Strategies :
             consider_compact(strategy) =>
                 /\ remapper'.valid <=>
                       \/ ReachesSlack(cached_mem, DEAD_BYTES_SLACK,
                                       strategy.maxDeadBytesRatio)
                       \/ ReachesSlack(cached_as, DEAD_ADDRESS_SPACE_SLACK,
                                       strategy.maxDeadAddressSpaceRatio)
                 /\ (cached_mem = NoUsage /\ cached_as = NoUsage) => ~remapper'.valid
                 /\ UNCHANGED <<cached_mem, cached_as, store_mem, store_as>>]_vars
    /\ [][<<cached_mem, cached_as>>' # <<cached_mem, cached_as>> =>
             /\ cached_mem' = store_mem
             /\ cached_as' = store_as
             /\ UNCHANGED <<store_mem, store_as, dict, entries>>]_vars

\* The store was compacted on the cached usage while the store, changed since
\* the last update_stat, reports dead space below the slack on both counts.
C20_Witness ==
    /\ remapper.valid
    /\ cached_mem.dead >= DEAD_BYTES_SLACK
    /\ store_mem.dead < DEAD_BYTES_SLACK
    /\ store_as.dead < DEAD_ADDRESS_SPACE_SLACK
    /\ store_mem # NoUsage

\* How many times the entry of a slot is on the hold lists, tagged or not.
HeldCount(s) ==
    CopiesIn(s, hold1)
        + BagCardinality([e \in {x \in BagToSet(hold2) : x.ref = s} |-> hold2[e]])

\* C21: over add_enum, reference count changes, full sweeps and targeted
\* sweeps, whatever the candidates, an entry is on the hold lists at most
\* once, and a step puts an entry on hold once and only while its Index is a
\* key of the tree.
C21_HeldOnceWhileKey ==
    /\ [](\A s \in Index : HeldCount(s) <= 1)
    /\ [][\A s \in Index :
             CopiesIn(s, hold1') > CopiesIn(s, hold1) =>
                 /\ s \in Keys(dict)
                 /\ CopiesIn(s, hold1') = CopiesIn(s, hold1) + 1]_vars

\* A targeted sweep was given an Index that an earlier sweep had taken out of
\* the tree and that was not yet trimmed: its entry is on hold twice and the
\* program has ended in the remove.
C21_Witness ==
    /\ aborted
    /\ \E s \in Index :
          /\ HeldCount(s) = 2
          /\ s \notin Keys(dict)
          /\ entries[s].st = "used"
          /\ entries[s].rc = 0

\* C22: the keys of the live tree are entries that are allocated and not
\* reclaimed, in every state, the states inside a sweep included. Inside a
\* sweep every unused key still in the tree is on hold and the tree is in the
\* order of the values its keys resolve to; no step of a sweep changes an
\* entry or the tagged hold list, so that no trim falls between the hold and
\* the last removal; each removal finds the key it is called for; and the
\* folded hand-off, comparing the removed key with its successor, hands the
\* posting list to a folded-equal successor that holds none.
C22_KeysAllocated ==
    /\ [](Keys(dict) \subseteq UsedSlots(entries))
    /\ [](mut_pc = "sweep" =>
             /\ \A k \in swp_unused \cap Keys(dict) : CopiesIn(k, hold1) >= 1
             /\ \A i \in 1..Len(dict), j \in 1..Len(dict) :
                   i < j => ValueOf(dict[i].key) < ValueOf(dict[j].key))
    /\ [][mut_pc = "sweep" => entries' = entries /\ hold2' = hold2]_vars
    /\ [][SweepRemove =>
             LET ref == MinOf(swp_unused)
             IN ref \in Keys(dict) =>
                   /\ ~aborted'
                   /\ Keys(dict') = Keys(dict) \ {ref}
                   /\ LET it == PositionOf(dict, ref)
                          P == dict[it].data
                      IN (/\ variant = "folded"
                          /\ P # InvalidRef
                          /\ it < Len(dict)
                          /\ Fold(ValueOf(dict[it + 1].key)) = Fold(ValueOf(ref))
                          /\ dict[it + 1].data = InvalidRef)
                             => dict'[it].data = P]_vars

\* Inside a sweep of two folded-equal keys nobody refers to: the first is out
\* of the tree, the second, on hold and still a key, has taken over its
\* posting list.
C22_Witness ==
    /\ mut_pc = "sweep"
    /\ ~aborted
    /\ Len(dict) = 1
    /\ dict[1].key \in swp_unused
    /\ dict[1].data # InvalidRef
    /\ BagCardinality(hold1) = 2
    /\ entries[dict[1].key].st = "used"

====
